---------------------------- MODULE Spec2Model ----------------------------
(***************************************************************************)
(* A model of src/src/AuthContext.tsx: the AuthProvider component, which   *)
(* mirrors the session held by an oidc-client UserManager into the React   *)
(* state userData and exposes login / logout / signOutRedirect.            *)
(*                                                                         *)
(* Strings (location.search, location.hash) are sequences of tokens.  The  *)
(* tokens "?", "#", "&" and "=" are the delimiter characters; every other  *)
(* token is a non-empty run of (decoded) characters holding no delimiter.  *)
(* Each async function of the component is a task whose position (pc)      *)
(* advances at its await points; the UserManager and the clock are the     *)
(* environment.                                                            *)
(***************************************************************************)
EXTENDS Naturals, Sequences, FiniteSets

VARIABLES
    phase,      \* "new" (before the first render), "mounted", "unmounted"
    props,      \* [autoSignIn, umProp]: autoSignIn, and whether userManager is supplied
    location,   \* the location prop of the latest render: [search, hash]
    userData,   \* useState<User | null>
    curUM,      \* the UserManager instance made or taken by the latest render
    umCount,    \* number of UserManager instances in existence
    isAuthenticated, \* the isAuthenticated of the context value of the latest render
    listeners,  \* the userLoaded callbacks the provider has registered, in order:
                \* one entry, the instance registered on, per registration
    store,      \* the user held in the UserManager's storage (shared by instances)
    now,        \* the clock, in seconds
    tasks,      \* the async function calls in flight, in start order
    envSteps,   \* number of events and actions of the environment after the mount
    finished,   \* the async function call that ended in the latest step, or NoTask
    lastEnv,    \* the latest event or action: "userLoaded", "rejection", "other"
    urlResult,  \* result of a direct call of hasCodeInUrl: <<>> or <<b>>
    signedOut   \* logout or signOutRedirect has resolved, and since then no
                \* signinCallback has resolved and no userLoaded event was raised

vars == <<phase, props, location, userData, curUM, umCount, isAuthenticated,
          listeners, store, now, tasks, envSteps, finished, lastEnv, urlResult, signedOut>>

-----------------------------------------------------------------------------
(* Bounds *)

MaxUrlLen == 5
\* events and actions of the environment after the mount
MaxEnv == 1

-----------------------------------------------------------------------------
(* Strings *)

Tokens == {"?", "#", "&", "=", "code", "id_token", "session_state", "x"}

SeqsUpTo(S, n) == UNION {[1..k -> S] : k \in 0..n}

\* String.prototype.replace(a, b) with a string pattern: the first occurrence only
RECURSIVE replace(_, _, _)
replace(s, a, b) ==
    IF s = <<>> THEN <<>>
    ELSE IF Head(s) = a THEN <<b>> \o Tail(s)
    ELSE <<Head(s)>> \o replace(Tail(s), a, b)

\* s.split(sep): the pieces of s between the occurrences of sep
RECURSIVE split(_, _)
split(s, sep) ==
    IF s = <<>> THEN << <<>> >>
    ELSE LET rest == split(Tail(s), sep)
         IN  IF Head(s) = sep THEN << <<>> >> \o rest
             ELSE << <<Head(s)>> \o Head(rest) >> \o Tail(rest)

\* one name=value piece: split at the first "="; no "=" gives an empty value
RECURSIVE parsePair(_)
parsePair(piece) ==
    IF piece = <<>> THEN [name |-> <<>>, value |-> <<>>]
    ELSE IF Head(piece) = "=" THEN [name |-> <<>>, value |-> Tail(piece)]
    ELSE LET r == parsePair(Tail(piece))
         IN  [name |-> <<Head(piece)>> \o r.name, value |-> r.value]

\* new URLSearchParams(init): one leading "?" is dropped, empty pieces are skipped
URLSearchParams(init) ==
    LET s == IF init /= <<>> /\ Head(init) = "?" THEN Tail(init) ELSE init
        pieces == split(s, "&")
    IN  [i \in 1..Len(pieces) |-> parsePair(pieces[i])]

\* URLSearchParams.get(name): the value of the first pair named name, <<v>>,
\* or null, <<>>
RECURSIVE get(_, _)
get(params, name) ==
    IF params = <<>> THEN <<>>
    ELSE IF Head(params).name /= <<>> /\ Head(params).name = <<name>>
         THEN <<Head(params).value>>
    ELSE get(Tail(params), name)

\* truthiness of string | null
Truthy(v) == v /= <<>> /\ v[1] /= <<>>

\* hasCodeInUrl reading every occurrence of a parameter, as getAll would
hasCodeInUrl_anyOccurrence(loc) ==
    LET searchParams == URLSearchParams(loc.search)
        hashParams == URLSearchParams(replace(loc.hash, "#", "?"))
        any(ps, n) == \E k \in 1..Len(ps) : ps[k].name = <<n>> /\ ps[k].value /= <<>>
    IN  \E n \in {"code", "id_token", "session_state"} :
            any(searchParams, n) \/ any(hashParams, n)

hasCodeInUrl(loc) ==
    LET searchParams == URLSearchParams(loc.search)
        hashParams == URLSearchParams(replace(loc.hash, "#", "?"))
    IN  \/ Truthy(get(searchParams, "code"))
        \/ Truthy(get(searchParams, "id_token"))
        \/ Truthy(get(searchParams, "session_state"))
        \/ Truthy(get(hashParams, "code"))
        \/ Truthy(get(hashParams, "id_token"))
        \/ Truthy(get(hashParams, "session_state"))

-----------------------------------------------------------------------------
(* Users, locations and props *)

\* the User objects the identity provider can issue; null is Null
UserA == [name |-> "a", expires_at |-> 1]
UserB == [name |-> "b", expires_at |-> 2]
Null == [name |-> "null", expires_at |-> 0]
Users == {UserA, UserB}

\* User.expired as read at time t: expires_in = expires_at - now is <= 0
expired(user, t) == user.expires_at <= t

\* !user || user.expired
noLiveUser(user, t) == user = Null \/ expired(user, t)

\* a plain page, and the page the identity provider redirects back to
LocPlain == [search |-> <<"?", "x", "=", "x">>, hash |-> <<>>]
LocCallback == [search |-> <<"?", "code", "=", "x", "&", "session_state", "=", "x">>,
                hash |-> <<>>]
Locations == {LocPlain, LocCallback}

\* every location whose search and hash hold at most MaxUrlLen tokens together
UrlLocations ==
    UNION {[search : [1..k -> Tokens], hash : SeqsUpTo(Tokens, MaxUrlLen - k)] :
           k \in 0..MaxUrlLen}

HookNames == {"onBeforeSignIn", "onSignIn", "onSignOut"}

\* the argument handed to login / signOutRedirect
ArgValues == {"undefined", "a1"}

Props == [autoSignIn : BOOLEAN, umProp : BOOLEAN]

-----------------------------------------------------------------------------
(* Tasks: one per call of an async function of the component *)

entry(op, user, args) == [op |-> op, user |-> user, args |-> args]

call(op) == entry(op, Null, "undefined")

\* hook && hook(user): the entry stands for the guarded call, which calls the
\* hook exactly when the hook prop is provided
hook(name, user) == <<entry(name, user, "undefined")>>

\* the calls a log stands for when exactly the hooks in provided are props
Calls(log, provided) ==
    LET made(e) == e.op \notin HookNames \/ e.op \in provided
    IN  SelectSeq(log, made)

\* kind: the async function; awaited: the UserManager call it awaits; outcome:
\* what became of that call ("pending", "resolved" to val, "rejected"); pc:
\* "await", "resumed" (answered, the continuation not yet run), "hooks" (awaiting
\* signOutHooks()), "done" (returned), "rejected" (threw); um: the UserManager
\* instance of its closure; log: what it has called so far; at: the time on
\* the clock when it ended
newTask(kind, awaited, um, loc, args, log) ==
    [kind |-> kind, awaited |-> awaited, outcome |-> "pending", pc |-> "await",
     um |-> um, loc |-> loc, args |-> args, val |-> Null, at |-> 0, log |-> log]

NoLocation == [search |-> <<>>, hash |-> <<>>]

NoTask == [kind |-> "none", awaited |-> "none", outcome |-> "none", pc |-> "none",
           um |-> 0, loc |-> NoLocation, args |-> "undefined", val |-> Null,
           at |-> 0, log |-> <<>>]

Ops(t) == {t.log[k].op : k \in DOMAIN t.log}

Without(i) == SubSeq(tasks, 1, i - 1) \o SubSeq(tasks, i + 1, Len(tasks))

\* the isAuthenticated a render computes from its userData, the record that
\* localStorage holds under 'oidc.user:<authority>:<clientId>' and the clock:
\* userData?.expired ? false : JSON.parse(record)?.expires_at < now; with no
\* record, undefined < now is false
isAuthenticatedOf(user, record, t) ==
    IF user /= Null /\ expired(user, t) THEN FALSE
    ELSE record /= Null /\ record.expires_at < t

\* initUserManager(props): the prop when supplied, else a new UserManager
initUserManager == IF props.umProp THEN 0 ELSE umCount

\* one render of the component with state user: userManager =
\* initUserManager(props), and the context value is computed
Render(user) ==
    /\ curUM' = initUserManager
    /\ umCount' = IF props.umProp THEN 1 ELSE umCount + 1
    /\ isAuthenticated' = isAuthenticatedOf(user, store, now)

\* setUserData(user): a state update of a mounted component renders it again,
\* unless null replaces null; an unmounted component ignores it
setUserData(user) ==
    IF phase = "mounted" /\ ~(user = Null /\ userData = Null)
    THEN userData' = user /\ Render(user)
    ELSE UNCHANGED <<userData, curUM, umCount, isAuthenticated>>

\* the body of the sign-in effect's getUser up to its first await
startEffect(loc, um) ==
    IF hasCodeInUrl(loc)
    THEN newTask("effect", "signinCallback", um, loc, "undefined",
                 <<call("signinCallback")>>)
    ELSE newTask("effect", "getUser", um, loc, "undefined", <<call("getUser")>>)

\* updateUserData up to its await
startUpdateUserData(um) ==
    newTask("handler", "getUser", um, NoLocation, "undefined", <<call("getUser")>>)

\* userManager.events.addUserLoaded(updateUserData) on instance um
addUserLoaded(um) == Append(listeners, um)

\* userManager.events.removeUserLoaded(updateUserData) on instance um: the
\* first registration of the callback on that instance is dropped
removeUserLoaded(um) ==
    IF \E k \in DOMAIN listeners : listeners[k] = um
    THEN LET k == CHOOSE j \in DOMAIN listeners :
                    /\ listeners[j] = um
                    /\ \A h \in 1..(j - 1) : listeners[h] /= um
         IN  SubSeq(listeners, 1, k - 1) \o SubSeq(listeners, k + 1, Len(listeners))
    ELSE listeners

\* events.load(user) on instance um: every callback registered on it is called
raiseUserLoaded(um) ==
    LET registered(x) == x = um
    IN  [k \in 1..Len(SelectSeq(listeners, registered)) |-> startUpdateUserData(um)]

-----------------------------------------------------------------------------
(* The component's lifecycle *)

Init ==
    /\ phase = "new"
    /\ props \in Props
    /\ location \in Locations
    /\ userData = Null
    /\ curUM = 0
    /\ umCount = 0
    /\ isAuthenticated = FALSE
    /\ listeners = <<>>
    /\ store \in {Null, UserA}
    /\ now = 0
    /\ tasks = <<>>
    /\ envSteps = 0
    /\ finished = NoTask
    /\ lastEnv = "none"
    /\ urlResult = <<>>
    /\ signedOut = FALSE

\* first render, then both effects: the sign-in effect and addUserLoaded
Mount ==
    /\ phase = "new"
    /\ phase' = "mounted"
    /\ Render(userData)
    /\ tasks' = Append(tasks, startEffect(location, initUserManager))
    /\ listeners' = addUserLoaded(initUserManager)
    /\ lastEnv' = "other"
    /\ finished' = NoTask
    /\ UNCHANGED <<props, location, userData, store, now, envSteps, urlResult, signedOut>>

\* a render with a new location object: the sign-in effect runs again
LocationChange(loc) ==
    /\ phase = "mounted"
    /\ envSteps < MaxEnv
    /\ location' = loc
    /\ Render(userData)
    /\ tasks' = Append(tasks, startEffect(loc, initUserManager))
    /\ envSteps' = envSteps + 1
    /\ lastEnv' = "other"
    /\ finished' = NoTask
    /\ UNCHANGED <<phase, props, userData, listeners, store, now, urlResult, signedOut>>

\* the cleanup of the userLoaded effect taking the instance of the latest
\* render, not the one of the effect's closure
Unmount_latestRender ==
    /\ phase = "mounted"
    /\ envSteps < MaxEnv
    /\ envSteps' = envSteps + 1
    /\ phase' = "unmounted"
    /\ listeners' = removeUserLoaded(curUM)
    /\ lastEnv' = "other"
    /\ finished' = NoTask
    /\ UNCHANGED <<props, location, userData, curUM, umCount, isAuthenticated,
                   store, now, tasks, urlResult, signedOut>>

\* the cleanup of the userLoaded effect: removeUserLoaded on the userManager of
\* the effect's closure, the instance of the first render
Unmount ==
    /\ phase = "mounted"
    /\ envSteps < MaxEnv
    /\ envSteps' = envSteps + 1
    /\ phase' = "unmounted"
    /\ listeners' = removeUserLoaded(0)
    /\ lastEnv' = "other"
    /\ finished' = NoTask
    /\ UNCHANGED <<props, location, userData, curUM, umCount, isAuthenticated,
                   store, now, tasks, urlResult, signedOut>>

Tick ==
    /\ envSteps < MaxEnv
    /\ envSteps' = envSteps + 1
    /\ now' = now + 1
    /\ finished' = NoTask
    /\ UNCHANGED <<phase, props, location, userData, curUM, umCount, isAuthenticated,
                   listeners, store, tasks, lastEnv, urlResult, signedOut>>

-----------------------------------------------------------------------------
(* The actions of the context value; each runs up to its first await *)

\* login dropping its argument: signinRedirect()
loginStart_noArgs(args) ==
    newTask("login", "signinRedirect", curUM, NoLocation, args,
            <<entry("signinRedirect", Null, "undefined")>>)

\* login(args): await userManager.signinRedirect(args)
loginStart(args) ==
    newTask("login", "signinRedirect", curUM, NoLocation, args,
            <<entry("signinRedirect", Null, args)>>)

\* logout(): await userManager.removeUser()
logoutStart ==
    newTask("logout", "removeUser", curUM, NoLocation, "undefined",
            <<call("removeUser")>>)

\* signOutRedirect(args): await userManager.signoutRedirect(args)
signOutRedirectStart(args) ==
    newTask("signOutRedirect", "signoutRedirect", curUM, NoLocation, args,
            <<entry("signoutRedirect", Null, args)>>)

Invoke(task) ==
    /\ phase = "mounted"
    /\ envSteps < MaxEnv
    /\ tasks' = Append(tasks, task)
    /\ envSteps' = envSteps + 1
    /\ lastEnv' = "other"
    /\ finished' = NoTask
    /\ UNCHANGED <<phase, props, location, userData, curUM, umCount, isAuthenticated,
                   listeners, store, now, urlResult, signedOut>>

Login(args) == Invoke(loginStart(args))

Logout == Invoke(logoutStart)

SignOutRedirect(args) == Invoke(signOutRedirectStart(args))

-----------------------------------------------------------------------------
(* The UserManager: each awaited call resolves or rejects at some later step *)

Awaiting(i, awaited) ==
    /\ i \in DOMAIN tasks
    /\ tasks[i].pc = "await"
    /\ tasks[i].awaited = awaited

Resume(i, value) ==
    [tasks EXCEPT ![i].outcome = "resolved", ![i].pc = "resumed", ![i].val = value]

\* signinCallback resolves: the user is stored, then userLoaded is raised on
\* the instance that was called
SigninCallbackResolves(i, user) ==
    /\ Awaiting(i, "signinCallback")
    /\ store' = user
    /\ tasks' = Resume(i, user) \o raiseUserLoaded(tasks[i].um)
    /\ lastEnv' = "userLoaded"
    /\ signedOut' = FALSE
    /\ finished' = NoTask
    /\ UNCHANGED <<phase, props, location, userData, curUM, umCount, isAuthenticated,
                   listeners, now, envSteps, urlResult>>

\* getUser resolves to the user the storage holds
GetUserResolves(i) ==
    /\ Awaiting(i, "getUser")
    /\ tasks' = Resume(i, store)
    /\ finished' = NoTask
    /\ UNCHANGED <<phase, props, location, userData, curUM, umCount, isAuthenticated,
                   listeners, store, now, envSteps, lastEnv, urlResult, signedOut>>

\* removeUser resolves: the storage holds no user any more
RemoveUserResolves(i) ==
    /\ Awaiting(i, "removeUser")
    /\ store' = Null
    /\ tasks' = Resume(i, Null)
    /\ finished' = NoTask
    /\ UNCHANGED <<phase, props, location, userData, curUM, umCount, isAuthenticated,
                   listeners, now, envSteps, lastEnv, urlResult, signedOut>>

\* signoutRedirect resolves: the library has removed the user and navigates
SignoutRedirectResolves(i) ==
    /\ Awaiting(i, "signoutRedirect")
    /\ store' = Null
    /\ tasks' = Resume(i, Null)
    /\ finished' = NoTask
    /\ UNCHANGED <<phase, props, location, userData, curUM, umCount, isAuthenticated,
                   listeners, now, envSteps, lastEnv, urlResult, signedOut>>

\* signinRedirect (awaited by login) resolves
SigninRedirectResolves(i) ==
    /\ Awaiting(i, "signinRedirect")
    /\ tasks' = Resume(i, Null)
    /\ finished' = NoTask
    /\ UNCHANGED <<phase, props, location, userData, curUM, umCount, isAuthenticated,
                   listeners, store, now, envSteps, lastEnv, urlResult, signedOut>>

\* a sign-out action that runs signOutHooks in a finally: a rejection is followed
\* by setUserData(null) and onSignOut
Rejects_finally(i) ==
    /\ i \in DOMAIN tasks
    /\ tasks[i].pc = "await"
    /\ tasks' = Without(i)
    /\ finished' =
        [tasks[i] EXCEPT
            !.outcome = "rejected", !.pc = "rejected", !.at = now,
            !.log = IF tasks[i].kind \in {"logout", "signOutRedirect"}
                    THEN @ \o <<entry("setUserData", Null, "undefined")>>
                           \o hook("onSignOut", Null)
                    ELSE @]
    /\ lastEnv' = "rejection"
    /\ IF tasks[i].kind \in {"logout", "signOutRedirect"}
       THEN setUserData(Null)
       ELSE UNCHANGED <<userData, curUM, umCount, isAuthenticated>>
    /\ UNCHANGED <<phase, props, location, listeners, store, now, envSteps, urlResult, signedOut>>

\* an awaited call rejects: the async function throws at its await and its
\* promise rejects
Rejects(i) ==
    /\ i \in DOMAIN tasks
    /\ tasks[i].pc = "await"
    /\ tasks' = Without(i)
    /\ finished' = [tasks[i] EXCEPT !.outcome = "rejected", !.pc = "rejected",
                                     !.at = now]
    /\ lastEnv' = "rejection"
    /\ UNCHANGED <<phase, props, location, userData, curUM, umCount, isAuthenticated,
                   listeners, store, now, envSteps, urlResult, signedOut>>

\* silent renewal (or any other sign-in) by instance um: the new user is
\* stored, then userLoaded is raised on that instance
UserLoaded(um, user) ==
    /\ phase /= "new"
    /\ um < umCount
    /\ envSteps < MaxEnv
    /\ envSteps' = envSteps + 1
    /\ store' = user
    /\ tasks' = tasks \o raiseUserLoaded(um)
    /\ lastEnv' = "userLoaded"
    /\ signedOut' = FALSE
    /\ finished' = NoTask
    /\ UNCHANGED <<phase, props, location, userData, curUM, umCount, isAuthenticated,
                   listeners, now, urlResult>>

-----------------------------------------------------------------------------
(* The continuations of the component's async functions *)

Resumed(i, kind, awaited) ==
    /\ i \in DOMAIN tasks
    /\ tasks[i].pc = "resumed"
    /\ tasks[i].kind = kind
    /\ tasks[i].awaited = awaited

Unchanged == UNCHANGED <<phase, props, location, listeners, store, now, envSteps,
                         lastEnv, urlResult, signedOut>>

\* the async function of task i returns, having called what log lists
Returns(i, log) ==
    /\ tasks' = Without(i)
    /\ finished' = [tasks[i] EXCEPT !.pc = "done", !.at = now, !.log = @ \o log]

\* signOutHooks calling the hook first: onSignOut && onSignOut(); setUserData(null)
signOutHooks_hookFirst(i) ==
    /\ setUserData(Null)
    /\ tasks' = [tasks EXCEPT ![i].pc = "hooks",
                    ![i].log = @ \o hook("onSignOut", Null)
                                 \o <<entry("setUserData", Null, "undefined")>>]
    /\ finished' = NoTask
    /\ Unchanged

\* signOutHooks: setUserData(null); onSignOut && onSignOut()
signOutHooks(i) ==
    /\ setUserData(Null)
    /\ tasks' = [tasks EXCEPT ![i].pc = "hooks",
                    ![i].log = @ \o <<entry("setUserData", Null, "undefined")>>
                                 \o hook("onSignOut", Null)]
    /\ finished' = NoTask
    /\ Unchanged

\* the effect calling the hook first: onSignIn(user); setUserData(user)
EffectAfterSigninCallback_hookFirst(i) ==
    /\ Resumed(i, "effect", "signinCallback")
    /\ setUserData(tasks[i].val)
    /\ Returns(i, hook("onSignIn", tasks[i].val)
                  \o <<entry("setUserData", tasks[i].val, "undefined")>>)
    /\ Unchanged

\* sign-in effect, after signinCallback: setUserData(user); onSignIn(user); return
EffectAfterSigninCallback(i) ==
    /\ Resumed(i, "effect", "signinCallback")
    /\ setUserData(tasks[i].val)
    /\ Returns(i, <<entry("setUserData", tasks[i].val, "undefined")>>
                  \o hook("onSignIn", tasks[i].val))
    /\ Unchanged

\* the effect testing !user only: an expired user is set, not redirected
EffectAfterGetUser_ignoreExpiry(i) ==
    /\ Resumed(i, "effect", "getUser")
    /\ IF tasks[i].val = Null /\ props.autoSignIn
       THEN /\ Returns(i, hook("onBeforeSignIn", Null) \o <<call("signinRedirect")>>)
            /\ UNCHANGED <<userData, curUM, umCount, isAuthenticated>>
       ELSE /\ setUserData(tasks[i].val)
            /\ Returns(i, <<entry("setUserData", tasks[i].val, "undefined")>>)
    /\ Unchanged

\* the effect not testing autoSignIn: it redirects whenever no live user is held
EffectAfterGetUser_ignoreAutoSignIn(i) ==
    /\ Resumed(i, "effect", "getUser")
    /\ IF noLiveUser(tasks[i].val, now)
       THEN /\ Returns(i, hook("onBeforeSignIn", Null) \o <<call("signinRedirect")>>)
            /\ UNCHANGED <<userData, curUM, umCount, isAuthenticated>>
       ELSE /\ setUserData(tasks[i].val)
            /\ Returns(i, <<entry("setUserData", tasks[i].val, "undefined")>>)
    /\ Unchanged

\* sign-in effect, after getUser: redirect to sign in, or setUserData(user)
EffectAfterGetUser(i) ==
    /\ Resumed(i, "effect", "getUser")
    /\ IF noLiveUser(tasks[i].val, now) /\ props.autoSignIn
       THEN /\ Returns(i, hook("onBeforeSignIn", Null) \o <<call("signinRedirect")>>)
            /\ UNCHANGED <<userData, curUM, umCount, isAuthenticated>>
       ELSE /\ setUserData(tasks[i].val)
            /\ Returns(i, <<entry("setUserData", tasks[i].val, "undefined")>>)
    /\ Unchanged

\* updateUserData announcing the user as a sign-in: setUserData(user); onSignIn(user)
UpdateUserDataAfterGetUser_onSignIn(i) ==
    /\ Resumed(i, "handler", "getUser")
    /\ setUserData(tasks[i].val)
    /\ Returns(i, <<entry("setUserData", tasks[i].val, "undefined")>>
                  \o hook("onSignIn", tasks[i].val))
    /\ Unchanged

\* updateUserData, after getUser: setUserData(user)
UpdateUserDataAfterGetUser(i) ==
    /\ Resumed(i, "handler", "getUser")
    /\ setUserData(tasks[i].val)
    /\ Returns(i, <<entry("setUserData", tasks[i].val, "undefined")>>)
    /\ Unchanged

\* login, after signinRedirect: the function returns
LoginAfterSigninRedirect(i) ==
    /\ Resumed(i, "login", "signinRedirect")
    /\ Returns(i, <<>>)
    /\ UNCHANGED <<userData, curUM, umCount, isAuthenticated>>
    /\ Unchanged

\* logout, after removeUser: await signOutHooks()
LogoutAfterRemoveUser(i) ==
    /\ Resumed(i, "logout", "removeUser")
    /\ signOutHooks(i)

\* signOutRedirect, after signoutRedirect: await signOutHooks()
SignOutRedirectAfterSignoutRedirect(i) ==
    /\ Resumed(i, "signOutRedirect", "signoutRedirect")
    /\ signOutHooks(i)

\* logout / signOutRedirect, after await signOutHooks(): the promise resolves
Settles(i) ==
    /\ i \in DOMAIN tasks
    /\ tasks[i].pc = "hooks"
    /\ tasks' = Without(i)
    /\ finished' = [tasks[i] EXCEPT !.pc = "done", !.at = now]
    /\ signedOut' = TRUE
    /\ UNCHANGED <<userData, curUM, umCount, isAuthenticated, phase, props, location,
                   listeners, store, now, envSteps, lastEnv, urlResult>>

-----------------------------------------------------------------------------
(* Specifications *)

Env ==
    \/ Mount
    \/ \E loc \in Locations : LocationChange(loc)
    \/ Unmount
    \/ Tick
    \/ \E args \in ArgValues : Login(args)
    \/ Logout
    \/ \E args \in ArgValues : SignOutRedirect(args)
    \/ \E um \in 0..umCount, user \in Users : UserLoaded(um, user)

Library ==
    \/ \E i \in DOMAIN tasks, user \in Users : SigninCallbackResolves(i, user)
    \/ \E i \in DOMAIN tasks : GetUserResolves(i)
    \/ \E i \in DOMAIN tasks : RemoveUserResolves(i)
    \/ \E i \in DOMAIN tasks : SignoutRedirectResolves(i)
    \/ \E i \in DOMAIN tasks : SigninRedirectResolves(i)
    \/ \E i \in DOMAIN tasks : Rejects(i)

Continue ==
    \/ \E i \in DOMAIN tasks : EffectAfterSigninCallback(i)
    \/ \E i \in DOMAIN tasks : EffectAfterGetUser(i)
    \/ \E i \in DOMAIN tasks : UpdateUserDataAfterGetUser(i)
    \/ \E i \in DOMAIN tasks : LoginAfterSigninRedirect(i)
    \/ \E i \in DOMAIN tasks : LogoutAfterRemoveUser(i)
    \/ \E i \in DOMAIN tasks : SignOutRedirectAfterSignoutRedirect(i)
    \/ \E i \in DOMAIN tasks : Settles(i)

Next == Env \/ Library \/ Continue

Spec == Init /\ [][Next]_vars

\* hasCodeInUrl called directly on any location
InitUrl ==
    /\ phase = "new"
    /\ props = [autoSignIn |-> TRUE, umProp |-> FALSE]
    /\ location \in UrlLocations
    /\ userData = Null
    /\ curUM = 0
    /\ umCount = 0
    /\ isAuthenticated = FALSE
    /\ listeners = <<>>
    /\ store = Null
    /\ now = 0
    /\ tasks = <<>>
    /\ envSteps = 0
    /\ finished = NoTask
    /\ lastEnv = "none"
    /\ urlResult = <<>>
    /\ signedOut = FALSE

CallHasCodeInUrl ==
    /\ urlResult = <<>>
    /\ urlResult' = <<hasCodeInUrl(location)>>
    /\ finished' = NoTask
    /\ UNCHANGED <<phase, props, location, userData, curUM, umCount, isAuthenticated,
                   listeners, store, now, tasks, envSteps, lastEnv, signedOut>>

NextUrl == CallHasCodeInUrl

SpecUrl == InitUrl /\ [][NextUrl]_vars

-----------------------------------------------------------------------------
(* C1: hasCodeInUrl *)

\* s with its first "#" made a "?", position by position
HashAsQuery(s) ==
    [k \in 1..Len(s) |->
        IF s[k] = "#" /\ \A j \in 1..(k - 1) : s[j] /= "#" THEN "?" ELSE s[k]]

\* the query string without its leading "?"
Query(s) == IF Len(s) > 0 /\ s[1] = "?" THEN SubSeq(s, 2, Len(s)) ELSE s

\* a parameter starts at position k of query q
ParamAt(q, k) == k \in 1..Len(q) /\ (k = 1 \/ q[k - 1] = "&")

\* the parameter at k is named name
Named(q, k, name) ==
    /\ ParamAt(q, k)
    /\ q[k] = name
    /\ (k = Len(q) \/ q[k + 1] \in {"=", "&"})

\* the parameter at k is named name and has a non-empty value
NamedWithValue(q, k, name) ==
    /\ Named(q, k, name)
    /\ k + 2 <= Len(q)
    /\ q[k + 1] = "="
    /\ q[k + 2] /= "&"

\* some occurrence of name in q has a non-empty value
HasValue(q, name) == \E k \in 1..Len(q) : NamedWithValue(q, k, name)

\* the first occurrence of name in q has a non-empty value
FirstHasValue(q, name) ==
    \E k \in 1..Len(q) :
        /\ NamedWithValue(q, k, name)
        /\ \A j \in 1..(k - 1) : ~Named(q, j, name)

Called == urlResult /= <<>>

\* C1 as stated: hasCodeInUrl(location) is true exactly when 'code', 'id_token'
\* or 'session_state' has a non-empty value in location.search or in
\* location.hash (its first '#' read as '?')
C1_AsStated ==
    Called =>
        (urlResult[1] <=>
            \E name \in {"code", "id_token", "session_state"} :
                \/ HasValue(Query(location.search), name)
                \/ HasValue(Query(HashAsQuery(location.hash)), name))

\* C1, amended: hasCodeInUrl(location) is true exactly when the first occurrence
\* of 'code', of 'id_token' or of 'session_state' in location.search or in
\* location.hash (its first '#' read as '?') has a non-empty value
C1_FirstOccurrence ==
    Called =>
        (urlResult[1] <=>
            \E name \in {"code", "id_token", "session_state"} :
                \/ FirstHasValue(Query(location.search), name)
                \/ FirstHasValue(Query(HashAsQuery(location.hash)), name))

\* a call that returns true on the strength of the hash alone, and one that
\* returns false for a parameter present with an empty value
C1_Witness ==
    /\ Called
    /\ \/ /\ urlResult[1]
          /\ location.search = <<>>
          /\ location.hash = <<"#", "id_token", "=", "x">>
       \/ /\ ~urlResult[1]
          /\ location.search = <<"?", "code", "=">>
          /\ location.hash = <<>>

-----------------------------------------------------------------------------
(* What the claims below speak of *)

\* every call in flight, and the call that has just ended
AllTasks == {tasks[i] : i \in DOMAIN tasks} \cup {finished}

HookSets == SUBSET HookNames

setTo(user) == entry("setUserData", user, "undefined")

hookCall(name, user, provided) ==
    IF name \in provided THEN <<entry(name, user, "undefined")>> ELSE <<>>

\* the step starts a call of the async function kind, resumes one or ends one
StepOf(kind) ==
    \/ finished'.kind = kind
    \/ /\ finished' = NoTask
       /\ \E i \in DOMAIN tasks' :
            /\ tasks'[i].kind = kind
            /\ i \in DOMAIN tasks => tasks'[i] /= tasks[i]

\* the sign-in effect of a location with a code has returned
CallbackEffectDone(t) ==
    t.kind = "effect" /\ hasCodeInUrl(t.loc) /\ t.pc = "done"

\* the sign-in effect of a location without a code has returned
PlainEffectDone(t) ==
    t.kind = "effect" /\ ~hasCodeInUrl(t.loc) /\ t.pc = "done"

-----------------------------------------------------------------------------
(* C2 *)

C2_Log ==
    \A t \in AllTasks :
        t.kind = "effect" /\ hasCodeInUrl(t.loc) =>
            /\ t.awaited = "signinCallback"
            /\ t.log[1] = call("signinCallback")
            /\ t.pc \in {"await", "resumed", "rejected"} => Len(t.log) = 1
            /\ t.pc = "done" =>
                /\ t.outcome = "resolved"
                /\ \A provided \in HookSets :
                     Calls(t.log, provided) =
                        <<call("signinCallback"), setTo(t.val)>>
                            \o hookCall("onSignIn", t.val, provided)
                /\ phase = "mounted" => userData = t.val

\* the mount, and every change of the location prop, runs the effect on the
\* location of that render
C2_Runs ==
    (phase = "new" /\ phase' = "mounted") \/ location' /= location =>
        /\ Len(tasks') = Len(tasks) + 1
        /\ tasks'[Len(tasks')].kind = "effect"
        /\ tasks'[Len(tasks')].loc = location'
        /\ tasks'[Len(tasks')].pc = "await"

\* C2: the sign-in effect runs at the mount and on each change of location; run
\* with a location that has a code it calls signinCallback and, once that has
\* resolved with user u, sets userData to u and then calls onSignIn(u) exactly
\* once (when provided); it calls nothing else, so never getUser,
\* onBeforeSignIn or signinRedirect
C2_SigninCallbackPath == []C2_Log /\ [][C2_Runs]_vars

\* a callback effect started by a change of location has returned, for user b
C2_Witness ==
    /\ CallbackEffectDone(finished)
    /\ finished.val = UserB
    /\ userData = UserB
    /\ envSteps = 1
    /\ Len(finished.log) = 3

-----------------------------------------------------------------------------
(* C3 *)

\* C3 as stated: once a userLoaded event was the latest event or action and
\* every call has been answered and continued, the userData of the mounted
\* provider is the user the user manager holds
C3_AsStated ==
    phase = "mounted" /\ lastEnv = "userLoaded" /\ tasks = <<>> => userData = store

\* the same with the userManager prop supplied: one instance throughout
C3_AsStatedOneInstance ==
    props.umProp /\ phase = "mounted" /\ lastEnv = "userLoaded" /\ tasks = <<>>
        => userData = store

-----------------------------------------------------------------------------
(* C4, C5, C10: the sign-out actions *)

\* what a sign-out action has called: first its one UserManager call and, only
\* once that has resolved, setUserData(null) and then onSignOut (when provided)
SignOutLog(t, first) ==
    /\ t.log[1] = first
    /\ t.pc \in {"await", "resumed", "rejected"} => Len(t.log) = 1
    /\ t.pc \in {"hooks", "done"} =>
        /\ t.outcome = "resolved"
        /\ \A provided \in HookSets :
             Calls(t.log, provided) =
                <<first, setTo(Null)>> \o hookCall("onSignOut", Null, provided)

\* signOutHooks has just run in a mounted provider: userData is null
HooksClear ==
    \A i \in DOMAIN tasks :
        /\ tasks[i].kind \in {"logout", "signOutRedirect"}
        /\ tasks[i].pc = "resumed"
        /\ finished' = NoTask
        /\ tasks'[i].pc = "hooks"
        /\ phase = "mounted"
        => userData' = Null

\* C4 as stated: logout calls removeUser and, only after that has resolved,
\* sets userData to null and then calls onSignOut exactly once (when provided),
\* never signoutRedirect; when its promise resolves userData is null
C4_AsStated ==
    /\ \A t \in AllTasks : t.kind = "logout" => SignOutLog(t, call("removeUser"))
    /\ finished.kind = "logout" /\ finished.pc = "done" /\ phase = "mounted"
        => userData = Null

\* C5: signOutRedirect(args) calls signoutRedirect(args) and, only after that
\* has resolved, sets userData to null and then calls onSignOut exactly once
\* (when provided); it calls nothing else, so never removeUser
C5_SignOutRedirect ==
    /\ [](\A t \in AllTasks :
            t.kind = "signOutRedirect" =>
                SignOutLog(t, entry("signoutRedirect", Null, t.args)))
    /\ [][HooksClear]_vars

\* signOutRedirect("a1") has resolved over a signed-in provider
C5_Witness ==
    /\ finished.kind = "signOutRedirect"
    /\ finished.pc = "done"
    /\ finished.args = "a1"
    /\ Len(finished.log) = 3
    /\ userData = Null
    /\ store = Null

\* a rejected call of a sign-out action leaves userData as it was
RejectionKeepsUserData ==
    finished'.kind \in {"logout", "signOutRedirect"} /\ finished'.outcome = "rejected"
        => userData' = userData

\* C10: if removeUser rejects during logout, or signoutRedirect during
\* signOutRedirect, the action's promise rejects, userData is left unchanged
\* and onSignOut is not called
C10_Rejection ==
    /\ [](\A t \in AllTasks :
            t.kind \in {"logout", "signOutRedirect"} /\ t.outcome = "rejected" =>
                /\ t.pc = "rejected"
                /\ Len(t.log) = 1
                /\ t.log[1].op = t.awaited)
    /\ [][RejectionKeepsUserData]_vars

\* removeUser has rejected while the provider shows a user
C10_Witness ==
    /\ finished.kind = "logout"
    /\ finished.pc = "rejected"
    /\ userData = UserA
    /\ store = UserA

-----------------------------------------------------------------------------
(* C6 *)

\* C6: login(args) calls signinRedirect(args) exactly once and nothing else;
\* no step of login changes userData
C6_Login ==
    /\ [](\A t \in AllTasks :
            t.kind = "login" =>
                \A provided \in HookSets :
                    Calls(t.log, provided) = <<entry("signinRedirect", Null, t.args)>>)
    /\ [][StepOf("login") => userData' = userData]_vars

\* login("a1") has returned in a provider that shows a user
C6_Witness ==
    /\ finished.kind = "login"
    /\ finished.pc = "done"
    /\ finished.args = "a1"
    /\ userData = UserA

-----------------------------------------------------------------------------
(* C7, C8 *)

\* what getUser resolved to is no user, or a user expired when the effect read it
NoUserOrExpired(t) == t.val = Null \/ t.val.expires_at <= t.at

\* C7: run with a location without a code, getUser resolving to no user or to an
\* expired user and autoSignIn true, the effect calls onBeforeSignIn (when
\* provided), then signinRedirect exactly once, and does not write userData
C7_AutoSignIn ==
    /\ [](PlainEffectDone(finished) /\ NoUserOrExpired(finished) /\ props.autoSignIn =>
            \A provided \in HookSets :
                Calls(finished.log, provided) =
                    <<call("getUser")>> \o hookCall("onBeforeSignIn", Null, provided)
                        \o <<call("signinRedirect")>>)
    /\ [][PlainEffectDone(finished') /\ NoUserOrExpired(finished') /\ props.autoSignIn
            => userData' = userData]_vars

\* the effect has redirected for a stored user that expired while the page was up
C7_Witness ==
    /\ PlainEffectDone(finished)
    /\ props.autoSignIn
    /\ finished.val = UserA
    /\ finished.at = 1
    /\ Len(finished.log) = 3

\* C8: run with a location without a code, and either autoSignIn false or
\* getUser resolving to a live user, the effect sets userData to what getUser
\* resolved to and calls neither onBeforeSignIn nor signinRedirect; with
\* autoSignIn false nothing but login calls signinRedirect
C8_NoRedirect ==
    /\ PlainEffectDone(finished) /\ (~props.autoSignIn \/ ~NoUserOrExpired(finished)) =>
        /\ \A provided \in HookSets :
              Calls(finished.log, provided) = <<call("getUser"), setTo(finished.val)>>
        /\ phase = "mounted" => userData = finished.val
    /\ ~props.autoSignIn =>
        \A t \in AllTasks : t.kind /= "login" => "signinRedirect" \notin Ops(t)

\* with autoSignIn false the effect has set userData to an expired user
C8_Witness ==
    /\ PlainEffectDone(finished)
    /\ ~props.autoSignIn
    /\ finished.val = UserA
    /\ finished.at = 1
    /\ userData = UserA

-----------------------------------------------------------------------------
(* C9 *)

\* C9: onSignIn is called only by the sign-in effect, after the signinCallback
\* it started has resolved and with the user that resolved to; never after
\* getUser, nor by the userLoaded handler, login, logout or signOutRedirect
C9_OnSignIn ==
    \A t \in AllTasks :
        \A k \in DOMAIN t.log :
            t.log[k].op = "onSignIn" =>
                /\ t.kind = "effect"
                /\ t.awaited = "signinCallback"
                /\ t.outcome = "resolved"
                /\ t.log[k].user = t.val
                /\ t.val \in Users
                /\ k > 1

\* the effect has called onSignIn(b), and the handler of the userLoaded event
\* that signinCallback raised is still in flight
C9_Witness ==
    /\ CallbackEffectDone(finished)
    /\ finished.log[3] = entry("onSignIn", UserB, "undefined")
    /\ \E i \in DOMAIN tasks : tasks[i].kind = "handler"

-----------------------------------------------------------------------------
(* C11 *)

\* the step renders the mounted provider: the mount, a new location, or a
\* change of userData
Rendered ==
    /\ phase' = "mounted"
    /\ phase = "new" \/ location' /= location \/ userData' /= userData

\* a live session: user is not expired and the stored record expires later
\* than t
LiveSession(user, record, t) ==
    /\ user = Null \/ ~expired(user, t)
    /\ record /= Null
    /\ record.expires_at > t

\* C11 as stated, for the renders that hold a user in userData: isAuthenticated
\* is true exactly when userData is not expired and the expires_at of the
\* stored user record is later than the current time; it is false when
\* userData is expired, when no record is stored or when the stored
\* expires_at is in the past
C11_AsStated ==
    [][Rendered /\ userData' /= Null
        => (isAuthenticated' <=> LiveSession(userData', store', now'))]_vars

-----------------------------------------------------------------------------
(* C12 *)

\* C12 as stated: once logout or signOutRedirect has resolved, the userData of
\* the mounted provider stays null until a later signinCallback resolves or a
\* later userLoaded event is raised; no getUser started before the sign-out
\* sets it back to a user
C12_AsStated ==
    [][phase = "mounted" /\ signedOut /\ signedOut' /\ userData = Null
        => userData' = Null]_vars

-----------------------------------------------------------------------------
(* C13 *)

\* the instances on which the provider has a userLoaded listener
ListenedTo == {listeners[k] : k \in DOMAIN listeners}

\* C13 as stated: in a mounted provider, with or without a userManager prop,
\* the user manager of the latest render, which the context value exposes and
\* login, logout and signOutRedirect call, is the instance on which the
\* provider registered its userLoaded listener at the mount
C13_AsStated ==
    phase = "mounted" =>
        /\ curUM \in ListenedTo
        /\ \A t \in AllTasks :
            t.kind \in {"login", "logout", "signOutRedirect"} => t.um \in ListenedTo

-----------------------------------------------------------------------------
(* C14 *)

\* the listeners the provider holds before the mount, while mounted and after
\* the unmount
OneListener ==
    /\ phase = "new" => listeners = <<>>
    /\ phase = "mounted" => listeners = <<0>>
    /\ phase = "unmounted" => listeners = <<>>

\* only the mount and the unmount register or remove a listener
ListenersKept == phase' = phase => listeners' = listeners

\* C14: the provider registers its userLoaded listener exactly once, at the
\* mount, on the user manager of the first render, and removes it from that
\* user manager at the unmount: while mounted exactly one listener of the
\* provider exists, whatever re-renders and location changes happen, and after
\* the unmount none remains
C14_Listener == []OneListener /\ [][ListenersKept]_vars

\* the provider was unmounted after a change of userData had rendered it again,
\* on a second UserManager
C14_Witness ==
    /\ phase = "unmounted"
    /\ ~props.umProp
    /\ userData /= Null
    /\ curUM = 1
    /\ listeners = <<>>

=============================================================================
